---- MODULE Spec2Model ----
(***************************************************************************)
(* Model of the dataset readers of transform-and-tell:                     *)
(*   tell/data/dataset_readers/nytimes_names_copy.py  (NYTimesNamesCopy)   *)
(*   tell/data/dataset_readers/goodnews_rare.py       (RareGoodNews)       *)
(*                                                                         *)
(* Indices and character offsets are 0-based, as in the source; a Python   *)
(* list l is a TLA+ sequence whose element l[n] is At(l, n).  A string is  *)
(* a sequence of one-character strings wherever its characters matter.     *)
(*                                                                         *)
(* Four specifications:                                                    *)
(*   SpecNames    _get_proper_names applied to a tagged section            *)
(*   SpecFlatten  _flatten_name_indices applied to paragraphs and spans    *)
(*   SpecText     the name spans of an instance against its strings        *)
(*   Spec         the generator _read of both readers, step by step        *)
(***************************************************************************)
EXTENDS Integers, Sequences, FiniteSets, TLC

VARIABLES
    call,        \* pure-function specifications: the call being made
    ret,         \* pure-function specifications: its result
    reader,      \* which reader's _read is running
    cursor,      \* the store cursor: "open" or "closed"
    remaining,   \* records the cursor has still to return
    article,     \* the record the for loop of _read is at
    posIdx,      \* 0-based index into image_positions of the pair in hand
    pc,          \* where the generator is
    k, i, j,     \* anchor index, backward pointer, forward pointer
    n_words,     \* running token total
    paragraphs,  \* headline and anchor, later the whole context list
    before,      \* backward-collected paragraphs
    after,       \* forward-collected paragraphs
    yielded      \* positions of the current record an instance was yielded for

pureVars == <<call, ret>>
readVars == <<reader, cursor, remaining, article, posIdx, pc, k, i, j,
              n_words, paragraphs, before, after, yielded>>
vars == <<call, ret, reader, cursor, remaining, article, posIdx, pc, k, i, j,
          n_words, paragraphs, before, after, yielded>>

(***************************************************************************)
(* Bounds of the model.                                                    *)
(***************************************************************************)
MaxTokens == 3      \* tagged tokens of a section (SpecNames)
MaxPars == 2        \* paragraphs given to _flatten_name_indices (SpecFlatten)
MaxTextLen == 3     \* characters of a section text (SpecText)
MaxSections == 4    \* sections of an article (Spec)
MaxRecords == 2     \* records the cursor returns (Spec)

(***************************************************************************)
(* Python helpers.                                                         *)
(***************************************************************************)
At(l, n) == l[n + 1]

Indices(l) == 0 .. (Len(l) - 1)

None == [is_none |-> TRUE, names |-> {}]

Some(s) == [is_none |-> FALSE, names |-> s]

\* Python truthiness of an optional set: None and the empty set are falsy.
Truthy(v) == ~v.is_none /\ v.names # {}

RECURSIVE Sum(_, _)
Sum(f, S) == IF S = {} THEN 0
             ELSE LET x == CHOOSE y \in S : TRUE IN f[x] + Sum(f, S \ {x})

Max2(a, b) == IF a >= b THEN a ELSE b

\* The increasing enumeration of a finite set of integers.
RECURSIVE Sorted(_)
Sorted(S) == IF S = {} THEN <<>>
             ELSE LET m == CHOOSE x \in S : \A y \in S : x <= y
                  IN <<m>> \o Sorted(S \ {m})

(***************************************************************************)
(* NYTimesNamesCopyReader.__init__: the rare-name set.                     *)
(***************************************************************************)
threshold == 10

Names == {"Alice", "Smith", "Bob"}

\* the values counter[w] of the pickled counters (lines 76-78)
CounterValues == {1, 10}

Counters == [Names -> CounterValues]

RareNamesOf(counter) == Some({w \in Names : counter[w] < threshold})

(***************************************************************************)
(* _get_proper_names                                                       *)
(***************************************************************************)
PNInit == [name_indices |-> <<>>, start |-> "None", end |-> "None",
           is_middle |-> FALSE]

\* line 215: the filter that decides whether a span opens
PNOpens(rare_names, tok) ==
    ~Truthy(rare_names) \/ tok.text \in rare_names.names

\* lines 214-223: the loop body
PNStep(st, tok, rare_names) ==
    IF tok.pos = "PROPN" /\ ~st.is_middle
    THEN IF PNOpens(rare_names, tok)
         THEN [st EXCEPT !.start = tok.start, !.end = tok.end,
                         !.is_middle = TRUE]
         ELSE st
    ELSE IF tok.pos = "PROPN" /\ st.is_middle
    THEN [st EXCEPT !.end = tok.end]
    ELSE IF tok.pos # "PROPN" /\ st.is_middle
    THEN [st EXCEPT !.name_indices = Append(@, <<st.start, st.end>>),
                    !.is_middle = FALSE]
    ELSE st

RECURSIVE PNScan(_, _, _, _)
PNScan(parts_of_speech, n, st, rare_names) ==
    IF n >= Len(parts_of_speech) THEN st
    ELSE PNScan(parts_of_speech, n + 1,
                PNStep(st, At(parts_of_speech, n), rare_names), rare_names)

\* lines 204-225: an open span is not appended when the loop ends
GetProperNames(section, rare_names) ==
    PNScan(section.parts_of_speech, 0, PNInit, rare_names).name_indices

(***************************************************************************)
(* SpecNames: a section's tagged tokens, laid out one space apart.         *)
(***************************************************************************)
TokenKinds == {[pos |-> "PROPN", text |-> w] : w \in Names}
              \cup {[pos |-> "VERB", text |-> "ran"]}

RECURSIVE SeqsUpTo(_, _)
SeqsUpTo(S, n) == IF n = 0 THEN {<<>>}
                  ELSE LET shorter == SeqsUpTo(S, n - 1)
                       IN shorter \cup
                          {Append(s, x) : s \in {t \in shorter : Len(t) = n - 1},
                                          x \in S}

RECURSIVE Layout(_, _)
Layout(kinds, offset) ==
    IF kinds = <<>> THEN <<>>
    ELSE LET t == Head(kinds)
         IN <<[pos |-> t.pos, text |-> t.text, start |-> offset,
               end |-> offset + Len(t.text)]>>
            \o Layout(Tail(kinds), offset + Len(t.text) + 1)

NoRet == [done |-> FALSE, value |-> <<>>]

ReadIdle ==
    /\ reader = "none" /\ cursor = "none" /\ remaining = 0
    /\ article = [kind |-> "none"] /\ posIdx = 0 /\ pc = "none"
    /\ k = 0 /\ i = 0 /\ j = 0 /\ n_words = 0
    /\ paragraphs = <<>> /\ before = <<>> /\ after = <<>> /\ yielded = <<>>

InitNames ==
    /\ \E kinds \in SeqsUpTo(TokenKinds, MaxTokens) :
       \E rare \in {None} \cup {RareNamesOf(c) : c \in Counters} :
          call = [fn |-> "_get_proper_names",
                  section |-> [parts_of_speech |-> Layout(kinds, 0)],
                  rare_names |-> rare]
    /\ ret = NoRet
    /\ ReadIdle

CallGetProperNames ==
    /\ call.fn = "_get_proper_names" /\ ~ret.done
    /\ ret' = [done |-> TRUE,
               value |-> GetProperNames(call.section, call.rare_names)]
    /\ UNCHANGED call
    /\ UNCHANGED readVars

NextNames == CallGetProperNames

SpecNames == InitNames /\ [][NextNames]_vars

(***************************************************************************)
(* Claims about _get_proper_names.                                         *)
(***************************************************************************)
IsPropn(toks, p) == At(toks, p).pos = "PROPN"

\* first tokens of the maximal runs of consecutive PROPN tokens
RunStarts(toks) ==
    {p \in Indices(toks) : IsPropn(toks, p) /\ (p = 0 \/ ~IsPropn(toks, p - 1))}

\* last token of the maximal run that token p lies in
RunLast(toks, p) ==
    CHOOSE q \in p .. (Len(toks) - 1) :
        /\ \A r \in p .. q : IsPropn(toks, r)
        /\ (q = Len(toks) - 1 \/ ~IsPropn(toks, q + 1))

RunSpan(toks, p) == <<At(toks, p).start, At(toks, RunLast(toks, p)).end>>

MaximalRuns(toks) ==
    LET starts == Sorted(RunStarts(toks))
    IN [n \in 1 .. Len(starts) |-> RunSpan(toks, starts[n])]

Range(l) == {l[n] : n \in 1 .. Len(l)}

NamesReturned == call.fn = "_get_proper_names" /\ ret.done

\* C1: with no filter set configured, _get_proper_names returns, in order,
\* exactly one span per maximal run of consecutive PROPN tokens, from the
\* start of the run's first token to the end of its last token; the spans do
\* not overlap and their starts increase strictly.
C1_OneSpanPerMaximalRun ==
    (NamesReturned /\ call.rare_names.is_none) =>
        /\ ret.value = MaximalRuns(call.section.parts_of_speech)
        /\ \A n \in 1 .. (Len(ret.value) - 1) :
               ret.value[n][2] <= ret.value[n + 1][1]

\* C2: with a filter set configured (an empty one included), a span opens
\* only at a PROPN token whose text is in the set and then runs to the end of
\* the run; a run whose first token is in the set yields one span over the
\* whole run; a run none of whose tokens is in the set yields no span.
C2_FilterSemantics ==
    (NamesReturned /\ ~call.rare_names.is_none) =>
        LET toks == call.section.parts_of_speech
            S == call.rare_names.names
        IN /\ \A span \in Range(ret.value) :
                  \E p \in Indices(toks) :
                      /\ IsPropn(toks, p) /\ At(toks, p).text \in S
                      /\ span = RunSpan(toks, p)
           /\ \A p \in RunStarts(toks) :
                  At(toks, p).text \in S =>
                      Cardinality({n \in 1 .. Len(ret.value) :
                                      ret.value[n] = RunSpan(toks, p)}) = 1
           /\ \A p \in RunStarts(toks) :
                  (\A q \in p .. RunLast(toks, p) : At(toks, q).text \notin S) =>
                      \A span \in Range(ret.value) :
                          ~(At(toks, p).start <= span[1]
                            /\ span[1] < RunSpan(toks, p)[2])

(***************************************************************************)
(* _flatten_name_indices                                                   *)
(***************************************************************************)
\* line 232: a local span moved by the running offset
Shift(span, offset) == <<span[1] + offset, span[2] + offset>>

AdvanceNoSeparator(offset, par) == offset + Len(par)

\* line 233: the running offset after a paragraph and its newline
Advance(offset, par) == offset + Len(par) + 1

ShiftAll(idx_list, offset) ==
    [n \in 1 .. Len(idx_list) |-> Shift(idx_list[n], offset)]

\* lines 230-233: the loop over zip(paragraphs, indices), from pair p on
RECURSIVE FlattenFrom(_, _, _, _, _)
FlattenFrom(pars, indices, p, offset, new_indices) ==
    IF p >= Len(pars) \/ p >= Len(indices) THEN new_indices
    ELSE FlattenFrom(pars, indices, p + 1, Advance(offset, At(pars, p)),
                     new_indices \o ShiftAll(At(indices, p), offset))

\* lines 227-235
FlattenNameIndices(pars, indices) == FlattenFrom(pars, indices, 0, 0, <<>>)

(***************************************************************************)
(* SpecFlatten: paragraphs and a parallel list of local span lists.        *)
(***************************************************************************)
ParTexts == {"", "Hi", "Hello", "World"}

SpanLists == {<<>>, <<<<0, 5>>>>, <<<<0, 1>>, <<2, 4>>>>, <<<<2, 4>>, <<0, 1>>>>}

InitFlatten ==
    /\ \E pars \in SeqsUpTo(ParTexts, MaxPars) :
       \E indices \in [1 .. Len(pars) -> SpanLists] :
          call = [fn |-> "_flatten_name_indices", paragraphs |-> pars,
                  indices |-> indices]
    /\ ret = NoRet
    /\ ReadIdle

CallFlattenNameIndices ==
    /\ call.fn = "_flatten_name_indices" /\ ~ret.done
    /\ ret' = [done |-> TRUE,
               value |-> FlattenNameIndices(call.paragraphs, call.indices)]
    /\ UNCHANGED call
    /\ UNCHANGED readVars

NextFlatten == CallFlattenNameIndices

SpecFlatten == InitFlatten /\ [][NextFlatten]_vars

\* B_p: the summed lengths, plus one each, of the paragraphs before p
BaseOf(pars, p) ==
    Sum([q \in 0 .. (p - 1) |-> Len(At(pars, q)) + 1], 0 .. (p - 1))

\* number of spans of the paragraphs before p
SpansBefore(indices, p) ==
    Sum([q \in 0 .. (p - 1) |-> Len(At(indices, q))], 0 .. (p - 1))

\* C3: _flatten_name_indices returns one span per input span, paragraph by
\* paragraph and in the original order within a paragraph, the span (s, e)
\* of paragraph p becoming (s + B_p, e + B_p), B_p being the sum over q < p
\* of len(paragraph_q) + 1.
C3_FlattenOffsets ==
    (call.fn = "_flatten_name_indices" /\ ret.done) =>
        LET pars == call.paragraphs
            indices == call.indices
        IN /\ Len(ret.value) = SpansBefore(indices, Len(pars))
           /\ \A p \in Indices(pars) :
                  \A m \in Indices(At(indices, p)) :
                      LET local == At(At(indices, p), m)
                          out == At(ret.value, SpansBefore(indices, p) + m)
                      IN out = <<local[1] + BaseOf(pars, p),
                                 local[2] + BaseOf(pars, p)>>

\* ['Hello', 'World'] with (0,5) in each paragraph gives (0,5) and (6,11)
C3_Witness ==
    /\ call.fn = "_flatten_name_indices" /\ ret.done
    /\ call.paragraphs = <<"Hello", "World">>
    /\ call.indices = <<(<<(<<0, 5>>)>>), (<<(<<0, 5>>)>>)>>
    /\ ret.value = <<(<<0, 5>>), (<<6, 11>>)>>

(***************************************************************************)
(* SpecText: the strings of one (article, position) pair, character by     *)
(* character, and the name spans _read and article_to_instance attach to   *)
(* them.  A text is made of spaces, "N" (a character of a proper noun) and *)
(* "v" (a character of any other word); its tagged tokens are its maximal  *)
(* runs of one non-space character, so every offset is valid in the text   *)
(* it was computed from.                                                   *)
(***************************************************************************)
Chars == {" ", "N", "v"}

Texts == SeqsUpTo(Chars, MaxTextLen)

IsSpace(c) == c \in {" ", "\n"}

\* str.strip()
RECURSIVE LStrip(_)
LStrip(t) == IF t # <<>> /\ IsSpace(Head(t)) THEN LStrip(Tail(t)) ELSE t

RECURSIVE RStrip(_)
RStrip(t) == IF t # <<>> /\ IsSpace(t[Len(t)])
             THEN RStrip(SubSeq(t, 1, Len(t) - 1)) ELSE t

Strip(t) == RStrip(LStrip(t))

\* line 184: '\n'.join(paragraphs)
RECURSIVE Join(_)
Join(pars) == IF pars = <<>> THEN <<>>
              ELSE IF Len(pars) = 1 THEN pars[1]
              ELSE pars[1] \o <<"\n">> \o Join(Tail(pars))

\* t[s:e] for 0 <= s
Slice(t, s, e) == SubSeq(t, s + 1, IF e <= Len(t) THEN e ELSE Len(t))

\* the parts_of_speech of a text: one token per maximal run of "N" or "v"
Tagged(t) ==
    LET starts == {q \in Indices(t) :
                      /\ At(t, q) # " "
                      /\ (q = 0 \/ At(t, q - 1) # At(t, q))}
        stop(q) == CHOOSE e \in (q + 1) .. Len(t) :
                      /\ \A r \in q .. (e - 1) : At(t, r) = At(t, q)
                      /\ (e = Len(t) \/ At(t, e) # At(t, q))
        order == Sorted(starts)
    IN [n \in 1 .. Len(order) |->
           [pos |-> IF At(t, order[n]) = "N" THEN "PROPN" ELSE "NOUN",
            text |-> Slice(t, order[n], stop(order[n])),
            start |-> order[n], end |-> stop(order[n])]]

Section(t) == [text |-> t, parts_of_speech |-> Tagged(t)]

\* lines 116-130, 138-142 and 170-179 of _read with article_to_instance
\* (lines 183-199), for an article [paragraph, image], position 1, no filter
\* set and an image that opens.  The headline's tokens are those of its
\* stripped text.
ReadOne(main, par, cap) ==
    LET title == Strip(main)
        caption == Strip(cap.text)
        paragraphs0 == IF title # <<>> THEN <<title>> ELSE <<>>
        names0 == IF title # <<>>
                  THEN <<GetProperNames(Section(title), None)>> ELSE <<>>
        paragraphs1 == Append(paragraphs0, par.text)
        names1 == Append(names0, GetProperNames(par, None))
    IN IF caption = <<>>
       THEN [emitted |-> FALSE]
       ELSE [emitted |-> TRUE,
             paragraphs |-> paragraphs1,
             paragraph_names |-> names1,
             name_indices |-> FlattenNameIndices(paragraphs1, names1),
             caption_name_indices |-> GetProperNames(cap, None),
             context |-> Strip(Join(paragraphs1)),
             caption |-> caption]

InitText ==
    /\ \E main \in Texts, par \in Texts, cap \in Texts :
          call = [fn |-> "article_to_instance", main |-> main,
                  paragraph |-> Section(par), image |-> Section(cap)]
    /\ ret = NoRet
    /\ ReadIdle

CallArticleToInstance ==
    /\ call.fn = "article_to_instance" /\ ~ret.done
    /\ ret' = [done |-> TRUE,
               value |-> ReadOne(call.main, call.paragraph, call.image)]
    /\ UNCHANGED call
    /\ UNCHANGED readVars

NextText == CallArticleToInstance

SpecText == InitText /\ [][NextText]_vars

ValidIn(span, t) == 0 <= span[1] /\ span[1] < span[2] /\ span[2] <= Len(t)

\* C8: in an emitted instance every context span is a valid offset pair into
\* the stored context string and names there the text its local span named
\* in its paragraph; every caption span is a valid offset pair into the
\* stripped caption and names there the text it named in the image section.
C8_SpansNameTheSameText ==
    (call.fn = "article_to_instance" /\ ret.done /\ ret.value.emitted) =>
        LET v == ret.value
        IN /\ \A span \in Range(v.caption_name_indices) :
                  /\ ValidIn(span, v.caption)
                  /\ Slice(v.caption, span[1], span[2])
                        = Slice(call.image.text, span[1], span[2])
           /\ \A p \in Indices(v.paragraphs) :
                  \A m \in Indices(At(v.paragraph_names, p)) :
                      LET local == At(At(v.paragraph_names, p), m)
                          span == At(v.name_indices,
                                     SpansBefore(v.paragraph_names, p) + m)
                      IN /\ ValidIn(span, v.context)
                         /\ Slice(v.context, span[1], span[2])
                               = Slice(At(v.paragraphs, p), local[1], local[2])

(***************************************************************************)
(* _read of both readers.  A section is its type, the number of token ids  *)
(* to_token_ids gives for its text, whether its text is empty once         *)
(* stripped, and whether Image.open succeeds on <image_dir>/<hash>.jpg.    *)
(* The headline is the number of token ids of its stripped 'main' text,    *)
(* 0 for an absent or blank one.                                           *)
(***************************************************************************)
MaxWords == 510

\* the entry of the context list that is the headline (sections are >= 0)
TITLE == -1

ParTokens == {1, 509}

Headlines == {0, 2, 510}

SectionKinds ==
    {[type |-> "paragraph", tokens |-> t, blank |-> FALSE, file |-> FALSE] :
        t \in ParTokens}
    \cup {[type |-> "caption", tokens |-> 1, blank |-> FALSE, file |-> TRUE],
          [type |-> "caption", tokens |-> 1, blank |-> FALSE, file |-> FALSE],
          [type |-> "caption", tokens |-> 0, blank |-> TRUE, file |-> TRUE]}

\* line 114: the indices of the image sections, in order
ImagePositions(sections) ==
    Sorted({n \in Indices(sections) : At(sections, n).type = "caption"})

\* the query of lines 105-110 returns articles with at least one image
Articles ==
    {[kind |-> "article", headline |-> h, sections |-> secs] :
        h \in Headlines,
        secs \in {x \in SeqsUpTo(SectionKinds, MaxSections) :
                      ImagePositions(x) # <<>>}}

Samples == {[kind |-> "sample", file |-> f] : f \in BOOLEAN}

NoArticle == [kind |-> "none"]

sections == article.sections

image_positions == ImagePositions(article.sections)

pos == At(image_positions, posIdx)

\* lines 116-118, 122: the stripped headline is non-empty
HasTitle(a) == a.headline > 0

\* lines 119-126
TitleParagraphs(a) == IF HasTitle(a) THEN <<TITLE>> ELSE <<>>

TitleWords(a) == IF HasTitle(a) THEN a.headline ELSE 0

CaptionEmptyUnchecked(section) == FALSE

\* lines 128-129
CaptionEmpty(section) == section.blank

\* lines 165-168
ImageOpens(section) == section.file

IsParagraph(secs, n) == At(secs, n).type = "paragraph"

\* len(self.to_token_ids(text))
Tokens(secs, n) == At(secs, n).tokens

\* line 145
TakesBefore(secs, ii, kk) == ii > kk /\ IsParagraph(secs, ii)

\* line 153
TakesAfter(secs, jj, kk) == kk < jj /\ jj < Len(secs) /\ IsParagraph(secs, jj)

AppendBefore(l, n) == Append(l, n)

\* line 147: before.insert(0, text)
InsertBefore(l, n) == <<n>> \o l

LoopExitBudgetOnly(n, ii, jj, kk, len) == n >= MaxWords

LoopExitNoBudget(n, ii, jj, kk, len) == ii <= kk /\ jj >= len

\* line 160
LoopExit(n, ii, jj, kk, len) == n >= MaxWords \/ (ii <= kk /\ jj >= len)

Init ==
    /\ call = [fn |-> "_read"] /\ ret = NoRet
    /\ reader \in {"nytimes", "goodnews"}
    /\ cursor = "open"
    /\ remaining \in 0 .. MaxRecords
    /\ article = NoArticle
    /\ posIdx = 0 /\ pc = "for"
    /\ k = 0 /\ i = 0 /\ j = 0 /\ n_words = 0
    /\ paragraphs = <<>> /\ before = <<>> /\ after = <<>> /\ yielded = <<>>

loopVars == <<k, i, j, n_words, paragraphs, before, after>>

\* The locals of one (article, position) pair are dead once the pair is left:
\* lines 119-121 and 132-138 assign each of them again before it is read.
\* They are cleared here, so that states differing only in dead values
\* coincide.
DropLocals ==
    /\ k' = 0 /\ i' = 0 /\ j' = 0 /\ n_words' = 0
    /\ paragraphs' = <<>> /\ before' = <<>> /\ after' = <<>>

\* line 112: the cursor returns the next article
ForNext ==
    /\ reader = "nytimes" /\ pc = "for" /\ remaining > 0
    /\ \E a \in Articles : article' = a
    /\ remaining' = remaining - 1
    /\ posIdx' = 0 /\ yielded' = <<>> /\ pc' = "positions"
    /\ UNCHANGED <<pureVars, reader, cursor, loopVars>>

\* lines 112 and 181 (goodnews_rare.py 84 and 99): the cursor is exhausted
ForEnd ==
    /\ pc = "for" /\ remaining = 0
    /\ cursor' = "closed" /\ pc' = "done"
    /\ UNCHANGED <<pureVars, reader, remaining, article, posIdx, yielded, loopVars>>

\* line 112 (goodnews_rare.py 84): the store fails while the cursor fetches;
\* the exception leaves _read
StoreError ==
    /\ pc = "for" /\ remaining > 0
    /\ pc' = "raised"
    /\ UNCHANGED <<pureVars, reader, cursor, remaining, article, posIdx, yielded,
                   loopVars>>

\* line 115: no image position is left; the for loop of line 112 takes over
\* and binds article anew
PosEnd ==
    /\ pc = "positions" /\ posIdx >= Len(image_positions)
    /\ pc' = "for"
    /\ article' = NoArticle /\ posIdx' = 0 /\ yielded' = <<>>
    /\ UNCHANGED <<pureVars, reader, cursor, remaining, loopVars>>

\* lines 115-130: the caption is empty once stripped
PosSkipCaption ==
    /\ pc = "positions" /\ posIdx < Len(image_positions)
    /\ CaptionEmpty(At(sections, pos))
    /\ posIdx' = posIdx + 1
    /\ DropLocals
    /\ UNCHANGED <<pureVars, reader, cursor, remaining, article, pc, yielded>>

\* lines 115-138: the headline, the caption, the pointers, the first section
PosBegin ==
    /\ pc = "positions" /\ posIdx < Len(image_positions)
    /\ ~CaptionEmpty(At(sections, pos))
    /\ paragraphs' = TitleParagraphs(article)
    /\ n_words' = TitleWords(article)
    /\ before' = <<>> /\ after' = <<>>
    /\ i' = pos - 1 /\ j' = pos + 1
    /\ k' = 0
    /\ pc' = "anchor"
    /\ UNCHANGED <<pureVars, reader, cursor, remaining, article, posIdx, yielded>>

\* lines 138-142: section k is the first paragraph
AnchorFound ==
    /\ pc = "anchor" /\ IsParagraph(sections, k)
    /\ paragraphs' = Append(paragraphs, k)
    /\ pc' = "expand"
    /\ UNCHANGED <<pureVars, reader, cursor, remaining, article, posIdx, yielded,
                   k, i, j, n_words, before, after>>

\* line 138: section k is no paragraph and another section follows
AnchorSkip ==
    /\ pc = "anchor" /\ ~IsParagraph(sections, k) /\ k + 1 < Len(sections)
    /\ k' = k + 1
    /\ UNCHANGED <<pureVars, reader, cursor, remaining, article, posIdx, yielded,
                   pc, i, j, n_words, paragraphs, before, after>>

\* line 138: the sections end without a paragraph; k stays at the last index
AnchorNone ==
    /\ pc = "anchor" /\ ~IsParagraph(sections, k) /\ k + 1 >= Len(sections)
    /\ pc' = "expand"
    /\ UNCHANGED <<pureVars, reader, cursor, remaining, article, posIdx, yielded,
                   k, i, j, n_words, paragraphs, before, after>>

\* lines 144-161: one iteration of the while loop
ExpandStep ==
    /\ pc = "expand"
    /\ LET tb == TakesBefore(sections, i, k)
           n1 == IF tb THEN n_words + Tokens(sections, i) ELSE n_words
           ta == TakesAfter(sections, j, k)
           n2 == IF ta THEN n1 + Tokens(sections, j) ELSE n1
       IN /\ before' = IF tb THEN InsertBefore(before, i) ELSE before
          /\ i' = i - 1
          /\ after' = IF ta THEN Append(after, j) ELSE after
          /\ j' = j + 1
          /\ n_words' = n2
          /\ pc' = IF LoopExit(n2, i - 1, j + 1, k, Len(sections))
                   THEN "open" ELSE "expand"
    /\ UNCHANGED <<pureVars, reader, cursor, remaining, article, posIdx, yielded,
                   k, paragraphs>>

\* lines 163-168: Image.open raises; continue
OpenFail ==
    /\ reader = "nytimes" /\ pc = "open"
    /\ ~ImageOpens(At(sections, pos))
    /\ posIdx' = posIdx + 1 /\ pc' = "positions"
    /\ DropLocals
    /\ UNCHANGED <<pureVars, reader, cursor, remaining, article, yielded>>

\* lines 163-179: the image opens; the context list is assembled and the
\* instance is yielded
YieldInstance ==
    /\ reader = "nytimes" /\ pc = "open"
    /\ ImageOpens(At(sections, pos))
    /\ paragraphs' = paragraphs \o before \o after
    /\ yielded' = Append(yielded, pos)
    /\ pc' = "yield"
    /\ UNCHANGED <<pureVars, reader, cursor, remaining, article, posIdx,
                   k, i, j, n_words, before, after>>

\* goodnews_rare.py lines 84-95: the sample's image does not open; continue
SampleSkip ==
    /\ reader = "goodnews" /\ pc = "for" /\ remaining > 0
    /\ \E a \in Samples : ~ImageOpens(a) /\ article' = a
    /\ remaining' = remaining - 1
    /\ yielded' = <<>>
    /\ UNCHANGED <<pureVars, reader, cursor, posIdx, pc, loopVars>>

\* goodnews_rare.py lines 84-97: the sample's instance is yielded
SampleYield ==
    /\ reader = "goodnews" /\ pc = "for" /\ remaining > 0
    /\ \E a \in Samples : ImageOpens(a) /\ article' = a
    /\ remaining' = remaining - 1
    /\ yielded' = <<0>>
    /\ pc' = "yield"
    /\ UNCHANGED <<pureVars, reader, cursor, posIdx, loopVars>>

\* the consumer asks for the next instance: the generator resumes after its
\* yield (line 179, goodnews_rare.py line 97)
Resume ==
    /\ pc = "yield"
    /\ IF reader = "nytimes"
       THEN posIdx' = posIdx + 1 /\ pc' = "positions"
       ELSE posIdx' = posIdx /\ pc' = "for"
    /\ DropLocals
    /\ UNCHANGED <<pureVars, reader, cursor, remaining, article, yielded>>

\* the consumer stops before exhaustion: the generator is closed or dropped
\* while suspended at its yield, and the code after the for loop never runs
Abandon ==
    /\ pc = "yield"
    /\ pc' = "abandoned"
    /\ UNCHANGED <<pureVars, reader, cursor, remaining, article, posIdx, yielded,
                   loopVars>>

Next ==
    \/ ForNext \/ ForEnd \/ StoreError
    \/ PosEnd \/ PosSkipCaption \/ PosBegin
    \/ AnchorFound \/ AnchorSkip \/ AnchorNone
    \/ ExpandStep
    \/ OpenFail \/ YieldInstance
    \/ SampleSkip \/ SampleYield
    \/ Resume \/ Abandon

Spec == Init /\ [][Next]_vars

(***************************************************************************)
(* Claims about _read.                                                     *)
(***************************************************************************)
HasParagraph(secs) == \E n \in Indices(secs) : IsParagraph(secs, n)

FirstParagraph(secs) ==
    CHOOSE n \in Indices(secs) :
        IsParagraph(secs, n) /\ \A m \in 0 .. (n - 1) : ~IsParagraph(secs, m)

\* token count of an entry of the context list
ItemTokens(item) ==
    IF item = TITLE THEN article.headline ELSE Tokens(sections, item)

SumTokens(l) == Sum([n \in 1 .. Len(l) |-> ItemTokens(l[n])], 1 .. Len(l))

\* iterations of the while loop run so far: i starts at pos - 1 and every
\* iteration decrements it once
Iterations == pos - 1 - i

\* C4 as claimed: the token count the expansion finishes with exceeds the
\* maximum by no more than the token count of one single paragraph (the
\* largest of the context's strings).
C4_OvershootOneParagraph ==
    (reader = "nytimes" /\ pc = "open") =>
        \E item \in Range(paragraphs \o before \o after) \cup {TITLE} :
            n_words <= MaxWords + ItemTokens(item)

\* C4 as amended: the iteration after which the loop stops started below the
\* maximum, or was the first and started with the headline's count; so the
\* final count exceeds the larger of 509 and the headline's count by no more
\* than the counts of the paragraphs that one iteration added, at most one
\* backward and one forward.
C4_OvershootOneIteration ==
    [][(reader = "nytimes" /\ pc = "expand") =>
        LET newB == IF Len(before') > Len(before)
                    THEN Tokens(sections, before'[1]) ELSE 0
            newA == IF Len(after') > Len(after)
                    THEN Tokens(sections, after'[Len(after')]) ELSE 0
        IN /\ Len(before') <= Len(before) + 1
           /\ Len(after') <= Len(after) + 1
           /\ n_words' <= Max2(MaxWords - 1, article.headline) + newB + newA
           /\ (Iterations > 0 => n_words < MaxWords)]_vars

\* the loop has stopped two paragraphs' worth beyond the maximum
C4_Witness ==
    /\ reader = "nytimes" /\ pc = "open"
    /\ article.headline < MaxWords
    /\ before # <<>> /\ after # <<>>
    /\ n_words > MaxWords + Tokens(sections, before[1])
    /\ n_words > MaxWords + Tokens(sections, after[Len(after)])

\* C5: the context list of an emitted instance is the headline if non-empty,
\* then the first paragraph section k, then the collected paragraph sections
\* between k and pos in increasing order, then those beyond pos and k in
\* increasing order; no section twice, never the section at pos; and with
\* the budget never reached, every paragraph section is in the list.
C5_ContextOrder ==
    (reader = "nytimes" /\ pc = "yield" /\ HasParagraph(sections)) =>
        LET kk == FirstParagraph(sections)
            body == IF HasTitle(article) THEN Tail(paragraphs) ELSE paragraphs
            nb == Cardinality({n \in 1 .. Len(body) : body[n] < pos}
                              \ {1})
        IN /\ (HasTitle(article) => paragraphs # <<>> /\ paragraphs[1] = TITLE)
           /\ body # <<>> /\ body[1] = kk
           /\ \A n \in 1 .. Len(body) :
                  /\ body[n] \in Indices(sections)
                  /\ IsParagraph(sections, body[n])
                  /\ body[n] # pos
           /\ \A n \in 2 .. Len(body) :
                  /\ body[n] > kk
                  /\ (n <= nb + 1 => body[n] < pos)
                  /\ (n > nb + 1 => body[n] > pos)
                  /\ (n > 2 /\ n # nb + 2 => body[n - 1] < body[n])
           /\ \A m, n \in 1 .. Len(body) : m # n => body[m] # body[n]
           /\ (n_words < MaxWords =>
                  Range(body) = {n \in Indices(sections) : IsParagraph(sections, n)})

\* headline, sections [paragraph, image, paragraph], pos 1: ['X dies','A','B']
C5_Witness ==
    /\ reader = "nytimes" /\ pc = "yield"
    /\ HasTitle(article) /\ Len(sections) = 3 /\ pos = 1
    /\ IsParagraph(sections, 0) /\ IsParagraph(sections, 2)
    /\ paragraphs = <<TITLE, 0, 2>>

\* the (article, position) pairs of the current record decided so far
Decided ==
    SubSeq(image_positions, 1,
           IF pc \in {"yield", "abandoned"} THEN posIdx + 1 ELSE posIdx)

\* C6: an instance is yielded for exactly the pairs whose image opens and
\* (NYTimes) whose caption is not empty once stripped, one each and in
\* order; a skipped pair ends nothing: the pairs after it are decided the
\* same way, and the generator finishes only with the cursor exhausted.
C6_OneInstancePerGoodPair ==
    /\ article.kind = "article" =>
           LET Good(p) == ~At(sections, p).blank /\ At(sections, p).file
           IN yielded = SelectSeq(Decided, Good)
    /\ article.kind = "sample" =>
           yielded = IF article.file THEN <<0>> ELSE <<>>
    /\ pc = "done" => remaining = 0

\* an instance is yielded for a pair that follows a skipped pair
C6_Witness ==
    /\ reader = "nytimes" /\ pc = "yield"
    /\ posIdx >= 1 /\ yielded = <<pos>>

\* C7: however the iteration of _read ends (cursor exhausted, consumer
\* stopping early, exception), the cursor has been closed.
C7_CursorClosedOnEveryExit ==
    pc \in {"done", "abandoned", "raised"} => cursor = "closed"

\* C9: the anchor search stays inside the sections and advances, the
\* expansion loop advances, and the loop runs at most len(sections)
\* iterations, so both terminate; also with no paragraph section at all and
\* with the first paragraph after the image.
C9_LoopsTerminate ==
    [][/\ (reader = "nytimes" /\ pc = "anchor") =>
            /\ k < Len(sections)
            /\ (pc' = "anchor" => k' = k + 1)
            /\ pc' \in {"anchor", "expand"}
       /\ (reader = "nytimes" /\ pc = "expand") =>
            /\ Iterations < Len(sections)
            /\ Iterations' = Iterations + 1
            /\ pc' \in {"expand", "open"}]_vars

\* the loop has finished, after len(sections) - 1 iterations, for an article
\* whose first paragraph lies after the image
C9_Witness ==
    /\ reader = "nytimes" /\ pc = "open"
    /\ Iterations = Len(sections) - 1 /\ Len(sections) >= 3
    /\ HasParagraph(sections) /\ FirstParagraph(sections) > pos

\* C10: when the expansion finishes, n_words is the sum of the token counts
\* of every string placed in the context: headline, anchor paragraph,
\* backward- and forward-collected paragraphs.
C10_TotalCountsEveryParagraph ==
    (reader = "nytimes" /\ pc = "open") =>
        n_words = SumTokens(paragraphs \o before \o after)

====
